---- MODULE Spec2Model ----
(***************************************************************************)
(* TopologyExtractor (map/src/topology/topology_generation/               *)
(* topology_extractor.rs): the pipeline find_seed_points -> find_nodes -> *)
(* find_edges over a thinned occupancy map, one action per loop iteration *)
(* of each stage.  Pixels are <<x, y>> with 0-based coordinates, as in    *)
(* the source.  Option<T> is modelled as a tuple: None is <<>> and        *)
(* Some(v) is <<v>>.                                                      *)
(***************************************************************************)
EXTENDS Integers, Sequences, FiniteSets, TLC

\* ------------------------------------------------------------ bounds
\* Every mask of a block of at most MaxCells cells, kept off the grid border, and
\* every mask of a grid of at most MaxBorderCells cells are inputs.
MaxCells == 8
MaxBorderCells == 6
\* The scenario masks (lines, plus shapes, rings) live on a ScDim x ScDim grid.
ScDim == 7
\* Straight lines of 3..MaxLine pixels.
MaxLine == 5
\* Plus shapes with arms of 1..MaxArm pixels.
MaxArm == 2
\* Rectangular rings with sides of 3..MaxRing pixels.
MaxRing == 4

\* ------------------------------------------------------------ values
None == << >>
Some(v) == << v >>
Unwrap(o) == o[1]

Reverse(seq) == [i \in 1..Len(seq) |-> seq[Len(seq) + 1 - i]]

Range(seq) == {seq[i] : i \in 1..Len(seq)}

\* GRID_OFFSETS_RIM[i] of the source is GRID_OFFSETS_RIM[i + 1] here.
GRID_OFFSETS_RIM ==
    << <<0, -1>>, <<1, -1>>, <<1, 0>>, <<1, 1>>,
       <<0, 1>>, <<-1, 1>>, <<-1, 0>>, <<-1, -1>> >>

\* GRID_OFFSETS_RIM.len()
RimLen == 8

\* Array2<bool>: dim() is (height, width); cells holds the <<x, y>> that are true.
Array2(w, h, fg) == [width |-> w, height |-> h, cells |-> fg]

Pixels(m) == (0..(m.width - 1)) \X (0..(m.height - 1))

\* Array2::get((row, col)): None outside the dimensions.  The source casts a
\* possibly negative isize to usize; the wrapped value exceeds every dimension,
\* so a negative row or column is outside as well.
Array2Get(m, row, col) ==
    IF row >= 0 /\ row < m.height /\ col >= 0 /\ col < m.width
    THEN Some(<<col, row>> \in m.cells)
    ELSE None

get_neighboring_pos(pos, dim, offset_index) ==
    LET x == pos[1] + GRID_OFFSETS_RIM[offset_index + 1][1]
        y == pos[2] + GRID_OFFSETS_RIM[offset_index + 1][2]
    IN  IF x < 0 \/ x >= dim[1] \/ y < 0 \/ y >= dim[2]
        THEN None
        ELSE Some(<<x, y>>)

\* The neighbour at rim index i is inside the grid and foreground.
NeighborSet(m, pos, i) ==
    LET n == get_neighboring_pos(pos, <<m.width, m.height>>, i)
    IN  n # None /\ Unwrap(Array2Get(m, Unwrap(n)[2], Unwrap(n)[1]))

compute_pixel_score(m, x, y) ==
    LET at(i) == Array2Get(m, y + GRID_OFFSETS_RIM[i + 1][2],
                              x + GRID_OFFSETS_RIM[i + 1][1])
        adjacent_pixels == Cardinality({i \in 0..(RimLen - 1) : at(i) = Some(TRUE)})
        contiguous_intervals ==
            Cardinality({i \in 0..(RimLen - 1) :
                /\ at((i + 0) % RimLen) # Some(FALSE)
                /\ at((i + 1) % RimLen) # Some(FALSE)})
    IN  adjacent_pixels - contiguous_intervals

\* Mutant: the second loop indexes the rim by i instead of 2 * i, so that diagonal
\* neighbours clear their flanks as well.
get_visit_mask_index_slip(m, pos) ==
    [i \in 0..(RimLen - 1) |->
        /\ NeighborSet(m, pos, i)
        /\ ~ \E j \in 0..3 :
               /\ NeighborSet(m, pos, j)
               /\ i \in {(8 + j - 1) % 8, (8 + j + 1) % 8}]

\* Mutant: the second loop is lost; the mask is the raw 8-neighbourhood.
get_visit_mask_raw(m, pos) ==
    [i \in 0..(RimLen - 1) |-> NeighborSet(m, pos, i)]

get_visit_mask(m, pos) ==
    [i \in 0..(RimLen - 1) |->
        /\ NeighborSet(m, pos, i)
        /\ ~ \E j \in 0..3 :
               /\ NeighborSet(m, pos, 2 * j)
               /\ i \in {(8 + 2 * j - 1) % 8, (8 + 2 * j + 1) % 8}]

\* ------------------------------------------------------------ state
VARIABLES
    thinned_occupancy_map,  \* extract: the skeleton mask (input, read-only)
    pc,                     \* position in extract
    unvisited_points,       \* find_seed_points: HashSet of remaining pixels
    seed_points,            \* find_seed_points: Vec of seeds (later: extract)
    seed_point,             \* find_seed_points: seed of the current flood fill
    fill_queue,             \* find_seed_points: its local bfs_queue
    connected_points,       \* find_seed_points: pixels in the current fill
    seed_index,             \* find_nodes: position of `for seed_point in seed_points`
    seed_queue,             \* find_nodes: per-seed BFS queue
    visited_points,         \* find_nodes: per-seed visited set
    node_count,             \* find_nodes: nodes created for the current seed
    recent_point,           \* find_nodes: last popped pixel
    nodes,                  \* topology_map: nodes, id i at index i + 1
    edges,                  \* topology_map: edges in insertion order
    bfs_queue,              \* extract: VecDeque<BfsData> shared by find_nodes/find_edges
    exploration_map,        \* find_edges: Array2<ExplorationData>
    failure                 \* "none", or the panic that aborted the extraction

vars == << thinned_occupancy_map, pc, unvisited_points, seed_points, seed_point,
           fill_queue, connected_points, seed_index, seed_queue, visited_points,
           node_count, recent_point, nodes, edges, bfs_queue, exploration_map,
           failure >>

\* The program state as one record, so that each step is a function on it.
State ==
    [ thinned_occupancy_map |-> thinned_occupancy_map, pc |-> pc,
      unvisited_points |-> unvisited_points, seed_points |-> seed_points,
      seed_point |-> seed_point, fill_queue |-> fill_queue,
      connected_points |-> connected_points, seed_index |-> seed_index,
      seed_queue |-> seed_queue, visited_points |-> visited_points,
      node_count |-> node_count, recent_point |-> recent_point,
      nodes |-> nodes, edges |-> edges, bfs_queue |-> bfs_queue,
      exploration_map |-> exploration_map, failure |-> failure ]

\* The state is n (Init); the next state is n (the actions).
Starts(n) ==
    /\ thinned_occupancy_map = n.thinned_occupancy_map
    /\ pc = n.pc
    /\ unvisited_points = n.unvisited_points
    /\ seed_points = n.seed_points
    /\ seed_point = n.seed_point
    /\ fill_queue = n.fill_queue
    /\ connected_points = n.connected_points
    /\ seed_index = n.seed_index
    /\ seed_queue = n.seed_queue
    /\ visited_points = n.visited_points
    /\ node_count = n.node_count
    /\ recent_point = n.recent_point
    /\ nodes = n.nodes
    /\ edges = n.edges
    /\ bfs_queue = n.bfs_queue
    /\ exploration_map = n.exploration_map
    /\ failure = n.failure

Apply(n) ==
    /\ thinned_occupancy_map' = n.thinned_occupancy_map
    /\ pc' = n.pc
    /\ unvisited_points' = n.unvisited_points
    /\ seed_points' = n.seed_points
    /\ seed_point' = n.seed_point
    /\ fill_queue' = n.fill_queue
    /\ connected_points' = n.connected_points
    /\ seed_index' = n.seed_index
    /\ seed_queue' = n.seed_queue
    /\ visited_points' = n.visited_points
    /\ node_count' = n.node_count
    /\ recent_point' = n.recent_point
    /\ nodes' = n.nodes
    /\ edges' = n.edges
    /\ bfs_queue' = n.bfs_queue
    /\ exploration_map' = n.exploration_map
    /\ failure' = n.failure

\* extract, up to the call of find_seed_points: an empty graph and an empty queue.
ExtractStart(m) ==
    [ thinned_occupancy_map |-> m, pc |-> "extract",
      unvisited_points |-> {}, seed_points |-> << >>, seed_point |-> <<0, 0>>,
      fill_queue |-> << >>, connected_points |-> 0, seed_index |-> 0,
      seed_queue |-> << >>, visited_points |-> {}, node_count |-> 0,
      recent_point |-> <<0, 0>>, nodes |-> << >>, edges |-> << >>,
      bfs_queue |-> << >>, exploration_map |-> [p \in {} |-> 0],
      failure |-> "none" ]

\* ------------------------------------------------------------ find_seed_points
\* Lines 69-79: every true cell goes into unvisited_points.
SeedsBeginStep(s) ==
    [s EXCEPT !.unvisited_points = {p \in Pixels(s.thinned_occupancy_map) :
                  Unwrap(Array2Get(s.thinned_occupancy_map, p[2], p[1]))},
              !.seed_points = << >>,
              !.pc = "seed_outer"]

\* Lines 82-88: `unvisited_points.iter().next()` yields an arbitrary element, p.
SeedPickStep(s, p) ==
    [s EXCEPT !.seed_point = p,
              !.unvisited_points = @ \ {p},
              !.fill_queue = << p >>,
              !.connected_points = 1,
              !.pc = "seed_bfs"]

\* Lines 93-107: the loop over the 8 offsets, from offset i on.
RECURSIVE SeedNeighbors(_, _, _)
SeedNeighbors(s, point, i) ==
    IF i = RimLen THEN s
    ELSE LET m == s.thinned_occupancy_map
             n == get_neighboring_pos(point, <<m.width, m.height>>, i)
         IN  IF /\ n # None
                /\ Unwrap(Array2Get(m, Unwrap(n)[2], Unwrap(n)[1]))
                /\ Unwrap(n) \in s.unvisited_points
             THEN SeedNeighbors(
                      [s EXCEPT !.unvisited_points = @ \ {Unwrap(n)},
                                !.fill_queue = Append(@, Unwrap(n)),
                                !.connected_points = @ + 1],
                      point, i + 1)
             ELSE SeedNeighbors(s, point, i + 1)

\* Mutant: the flood fill looks at the 4 orthogonal neighbours only.
RECURSIVE SeedNeighbors_orthogonal(_, _, _)
SeedNeighbors_orthogonal(s, point, i) ==
    IF i >= RimLen THEN s
    ELSE LET m == s.thinned_occupancy_map
             n == get_neighboring_pos(point, <<m.width, m.height>>, i)
         IN  IF /\ n # None
                /\ Unwrap(Array2Get(m, Unwrap(n)[2], Unwrap(n)[1]))
                /\ Unwrap(n) \in s.unvisited_points
             THEN SeedNeighbors_orthogonal(
                      [s EXCEPT !.unvisited_points = @ \ {Unwrap(n)},
                                !.fill_queue = Append(@, Unwrap(n)),
                                !.connected_points = @ + 1],
                      point, i + 2)
             ELSE SeedNeighbors_orthogonal(s, point, i + 2)

SeedPopStep_orthogonal(s) ==
    SeedNeighbors_orthogonal([s EXCEPT !.fill_queue = Tail(@)], Head(s.fill_queue), 0)

\* Lines 90-108: one iteration of `while !bfs_queue.is_empty()`.
SeedPopStep(s) ==
    SeedNeighbors([s EXCEPT !.fill_queue = Tail(@)], Head(s.fill_queue), 0)

\* Lines 110-111: the fill is over, the seed is recorded.
SeedRecordStep(s) ==
    [s EXCEPT !.seed_points = Append(@, s.seed_point), !.pc = "seed_outer"]

\* Line 114 and lines 57-63: find_seed_points returns, find_nodes is entered.
SeedsReturnStep(s) ==
    [s EXCEPT !.seed_index = 1, !.pc = "nodes_outer"]

\* ------------------------------------------------------------ topology_map
\* Vector2D::from_xy(x as f64, y as f64): the cast of a grid coordinate is exact.
Vector2D_from_xy(x, y) == <<x, y>>

TopologyNode(node_type, x, y) ==
    [node_type |-> node_type, position |-> Vector2D_from_xy(x, y)]

\* Graph::add_node: the node is stored and its id returned; ids count up from 0.
add_node(graph_nodes, node) ==
    [nodes |-> Append(graph_nodes, node), node_id |-> Len(graph_nodes)]

\* Graph::add_edge: Ok when both ids are ids of stored nodes, Err otherwise.
add_edge(graph_nodes, graph_edges, from, to, waypoints) ==
    IF from \in 0..(Len(graph_nodes) - 1) /\ to \in 0..(Len(graph_nodes) - 1)
    THEN [ok |-> TRUE,
          edges |-> Append(graph_edges,
                           [from |-> from, to |-> to, waypoints |-> waypoints])]
    ELSE [ok |-> FALSE, edges |-> graph_edges]

BfsData(root_node, pos, prev_pos) ==
    [root_node |-> root_node, pos |-> pos, prev_pos |-> prev_pos]

\* ------------------------------------------------------------ find_nodes
\* Lines 126-131: the next seed starts a BFS of its component.
NodesBeginStep(s) ==
    [s EXCEPT !.seed_queue = << s.seed_points[s.seed_index] >>,
              !.visited_points = {s.seed_points[s.seed_index]},
              !.node_count = 0,
              !.recent_point = <<0, 0>>,
              !.pc = "nodes_bfs"]

\* Lines 139-149 and 151-161: a node of the given type at (x, y) and its
\* frontier origin, whose predecessor is the pixel itself.
RegisterNode(s, node_type, x, y) ==
    LET added == add_node(s.nodes, TopologyNode(node_type, x, y))
    IN  [s EXCEPT !.nodes = added.nodes,
                  !.bfs_queue = Append(@, BfsData(added.node_id, <<x, y>>, <<x, y>>)),
                  !.node_count = @ + 1]

\* Mutant: the Endpoint threshold is off by one (score < 1).
Classify_endpoint_below_one(s, x, y) ==
    LET score == compute_pixel_score(s.thinned_occupancy_map, x, y)
    IN  IF score < 1 THEN RegisterNode(s, "Endpoint", x, y)
        ELSE IF score >= 3 THEN RegisterNode(s, "Intersection", x, y)
        ELSE s

\* Lines 136-162: the pixel is classified by its score.
Classify(s, x, y) ==
    LET score == compute_pixel_score(s.thinned_occupancy_map, x, y)
    IN  IF score <= 1 THEN RegisterNode(s, "Endpoint", x, y)
        ELSE IF score >= 3 THEN RegisterNode(s, "Intersection", x, y)
        ELSE s

\* Lines 164-179: the loop over the 8 offsets, from offset i on.
RECURSIVE NodeNeighbors(_, _, _)
NodeNeighbors(s, point, i) ==
    IF i = RimLen THEN s
    ELSE LET m == s.thinned_occupancy_map
             n == get_neighboring_pos(point, <<m.width, m.height>>, i)
         IN  IF /\ n # None
                /\ Unwrap(Array2Get(m, Unwrap(n)[2], Unwrap(n)[1]))
                /\ Unwrap(n) \notin s.visited_points
             THEN NodeNeighbors(
                      [s EXCEPT !.seed_queue = Append(@, Unwrap(n)),
                                !.visited_points = @ \cup {Unwrap(n)}],
                      point, i + 1)
             ELSE NodeNeighbors(s, point, i + 1)

\* Lines 133-180: one iteration of `while !seed_queue.is_empty()`.
NodesPopStep(s) ==
    LET point == Head(s.seed_queue)
        popped == [s EXCEPT !.seed_queue = Tail(@), !.recent_point = point]
    IN  NodeNeighbors(Classify(popped, point[1], point[2]), point, 0)

\* Mutant: the `node_count > 0` test is lost; every component gets a Waypoint.
NodesEndStep_always_waypoint(s) ==
    LET next == [s EXCEPT !.seed_index = @ + 1, !.pc = "nodes_outer"]
        added == add_node(s.nodes,
                     TopologyNode("Waypoint", s.recent_point[1], s.recent_point[2]))
    IN  [next EXCEPT !.nodes = added.nodes,
                     !.bfs_queue = Append(@,
                         BfsData(added.node_id, s.recent_point, s.recent_point))]

\* Lines 182-194: a component without a classified pixel gets one Waypoint node
\* at recent_point; then the loop moves to the next seed.
NodesEndStep(s) ==
    LET next == [s EXCEPT !.seed_index = @ + 1, !.pc = "nodes_outer"]
    IN  IF s.node_count > 0
        THEN next
        ELSE LET added == add_node(s.nodes,
                     TopologyNode("Waypoint", s.recent_point[1], s.recent_point[2]))
             IN  [next EXCEPT !.nodes = added.nodes,
                              !.bfs_queue = Append(@,
                                  BfsData(added.node_id, s.recent_point, s.recent_point))]

\* ------------------------------------------------------------ find_edges
ExplorationData(cell_state, root_node, pos, prev_pos) ==
    [cell_state |-> cell_state, root_node |-> root_node,
     pos |-> pos, prev_pos |-> prev_pos]

\* Lines 203-210: find_nodes has returned; every record starts Unvisited, without
\* an owner and as its own predecessor.
EdgesBeginStep(s) ==
    [s EXCEPT !.exploration_map =
                  [p \in Pixels(s.thinned_occupancy_map) |->
                      ExplorationData("Unvisited", None, p, p)],
              !.pc = "edges"]

\* Lines 365-381 and 390-406: the backward walk over the predecessor links from
\* pos.  Every pixel walked is collected; every one but the last (the pixel that
\* is its own predecessor) is marked Merged.  A walk that has collected as many
\* pixels as the grid holds and has not stopped never stops: done is FALSE.
\* Mutant: the walk tests for the origin before it collects the pixel, so that
\* the node pixel is left out of the path.
RECURSIVE WalkBack_skip_origin(_, _, _, _)
WalkBack_skip_origin(emap, pos, path, fuel) ==
    IF fuel = 0
    THEN [done |-> FALSE, path |-> path, exploration_map |-> emap]
    ELSE LET prev_pos == emap[pos].prev_pos
         IN  IF prev_pos = pos
             THEN [done |-> TRUE, path |-> path, exploration_map |-> emap]
             ELSE WalkBack_skip_origin([emap EXCEPT ![pos].cell_state = "Merged"],
                                       prev_pos, Append(path, pos), fuel - 1)

\* Mutant: the walk marks the pixel Merged before it tests for the origin, so
\* that the node pixel is marked as well.
RECURSIVE WalkBack_mark_origin(_, _, _, _)
WalkBack_mark_origin(emap, pos, path, fuel) ==
    IF fuel = 0
    THEN [done |-> FALSE, path |-> path, exploration_map |-> emap]
    ELSE LET prev_pos == emap[pos].prev_pos
             marked == [emap EXCEPT ![pos].cell_state = "Merged"]
         IN  IF prev_pos = pos
             THEN [done |-> TRUE, path |-> Append(path, pos), exploration_map |-> marked]
             ELSE WalkBack_mark_origin(marked, prev_pos, Append(path, pos), fuel - 1)

RECURSIVE WalkBack(_, _, _, _)
WalkBack(emap, pos, path, fuel) ==
    IF fuel = 0
    THEN [done |-> FALSE, path |-> path, exploration_map |-> emap]
    ELSE LET prev_pos == emap[pos].prev_pos
         IN  IF prev_pos = pos
             THEN [done |-> TRUE, path |-> Append(path, pos), exploration_map |-> emap]
             ELSE WalkBack([emap EXCEPT ![pos].cell_state = "Merged"],
                           prev_pos, Append(path, pos), fuel - 1)

\* Mutant: the edge is listed as collected whichever side is the lower one.
NormalizeDirection_no_reverse(this_side_root, other_side_root, waypoints_temp) ==
    [lower_group |-> IF this_side_root < other_side_root
                     THEN this_side_root ELSE other_side_root,
     upper_group |-> IF this_side_root < other_side_root
                     THEN other_side_root ELSE this_side_root,
     waypoints |-> [i \in 1..Len(waypoints_temp) |->
         Vector2D_from_xy(waypoints_temp[i][1], waypoints_temp[i][2])]]

\* Lines 408-426: the edge runs from the lower root to the upper root; the
\* collected pixels are listed as collected when this side is the lower one and
\* in reverse otherwise.
NormalizeDirection(this_side_root, other_side_root, waypoints_temp) ==
    IF this_side_root < other_side_root
    THEN [lower_group |-> this_side_root, upper_group |-> other_side_root,
          waypoints |-> [i \in 1..Len(waypoints_temp) |->
              Vector2D_from_xy(waypoints_temp[i][1], waypoints_temp[i][2])]]
    ELSE [lower_group |-> other_side_root, upper_group |-> this_side_root,
          waypoints |-> [i \in 1..Len(waypoints_temp) |->
              Vector2D_from_xy(Reverse(waypoints_temp)[i][1],
                               Reverse(waypoints_temp)[i][2])]]

Panic(s, why) == [s EXCEPT !.pc = "panic", !.failure = why]

\* Mutant: the 'this side' walk uses push_back like the other one, so that its
\* pixels are listed from the collision towards the node.
merge_and_add_edge_push_back(s, this_side_prev_pos, other_side_pos) ==
    LET size == Cardinality(DOMAIN s.exploration_map)
        this_side_root == s.exploration_map[this_side_prev_pos].root_node
        this_walk == WalkBack(s.exploration_map, this_side_prev_pos, << >>, size)
        other_side_root == this_walk.exploration_map[other_side_pos].root_node
        other_walk == WalkBack(this_walk.exploration_map, other_side_pos, << >>, size)
        waypoints_temp == this_walk.path \o other_walk.path
        norm == NormalizeDirection(Unwrap(this_side_root), Unwrap(other_side_root),
                                   waypoints_temp)
        added == add_edge(s.nodes, s.edges, norm.lower_group, norm.upper_group,
                          norm.waypoints)
    IN  IF this_side_root = None THEN Panic(s, "unwrap on None")
        ELSE IF ~ this_walk.done THEN Panic(s, "walk never stops")
        ELSE IF other_side_root = None
             THEN Panic([s EXCEPT !.exploration_map = this_walk.exploration_map],
                        "unwrap on None")
        ELSE IF ~ other_walk.done THEN Panic(s, "walk never stops")
        ELSE IF ~ added.ok
             THEN Panic([s EXCEPT !.exploration_map = other_walk.exploration_map],
                        "Error while adding edge to topology map.")
        ELSE [s EXCEPT !.exploration_map = other_walk.exploration_map,
                       !.edges = added.edges]

\* Lines 350-435.  `root_node.unwrap()` panics on None, a walk that never stops
\* hangs the extraction, and `.expect(..)` panics when add_edge fails.
merge_and_add_edge(s, this_side_prev_pos, other_side_pos) ==
    LET size == Cardinality(DOMAIN s.exploration_map)
        this_side_root == s.exploration_map[this_side_prev_pos].root_node
        this_walk == WalkBack(s.exploration_map, this_side_prev_pos, << >>, size)
        other_side_root == this_walk.exploration_map[other_side_pos].root_node
        other_walk == WalkBack(this_walk.exploration_map, other_side_pos, << >>, size)
        \* push_front on this side, push_back on the other side
        waypoints_temp == Reverse(this_walk.path) \o other_walk.path
        norm == NormalizeDirection(Unwrap(this_side_root), Unwrap(other_side_root),
                                   waypoints_temp)
        added == add_edge(s.nodes, s.edges, norm.lower_group, norm.upper_group,
                          norm.waypoints)
    IN  IF this_side_root = None THEN Panic(s, "unwrap on None")
        ELSE IF ~ this_walk.done THEN Panic(s, "walk never stops")
        ELSE IF other_side_root = None
             THEN Panic([s EXCEPT !.exploration_map = this_walk.exploration_map],
                        "unwrap on None")
        ELSE IF ~ other_walk.done THEN Panic(s, "walk never stops")
        ELSE IF ~ added.ok
             THEN Panic([s EXCEPT !.exploration_map = other_walk.exploration_map],
                        "Error while adding edge to topology map.")
        ELSE [s EXCEPT !.exploration_map = other_walk.exploration_map,
                       !.edges = added.edges]

\* Mutant: the owner is not stored with the visit (line 237 is lost).
MarkVisited_no_owner(emap, data) ==
    [emap EXCEPT ![data.pos].cell_state = "Visited",
                 ![data.pos].prev_pos = data.prev_pos]

\* Lines 233-240: the Unvisited record becomes Visited, with the predecessor and
\* the owner of the queued visit.
MarkVisited(emap, data) ==
    [emap EXCEPT ![data.pos].cell_state = "Visited",
                 ![data.pos].prev_pos = data.prev_pos,
                 ![data.pos].root_node = Some(data.root_node)]

\* Lines 245-279: the neighbour at rim index `neighbor` is queued when the visit
\* mask keeps it, it is inside the grid, it is not the predecessor and its
\* record is Unvisited.
Enqueues(s, data, visit_mask, neighbor) ==
    LET m == s.thinned_occupancy_map
        x == data.pos[1] + GRID_OFFSETS_RIM[neighbor + 1][1]
        y == data.pos[2] + GRID_OFFSETS_RIM[neighbor + 1][2]
    IN  /\ visit_mask[neighbor]
        /\ ~ (x < 0 \/ x >= m.width \/ y < 0 \/ y >= m.height)
        /\ <<x, y>> # data.prev_pos
        /\ s.exploration_map[<<x, y>>].cell_state = "Unvisited"

\* Mutant: the visits are pushed at the front of the queue (a stack, not a FIFO).
RECURSIVE ExpandNeighbors_push_front(_, _, _, _)
ExpandNeighbors_push_front(s, data, visit_mask, neighbor) ==
    IF neighbor >= RimLen THEN s
    ELSE IF Enqueues(s, data, visit_mask, neighbor)
         THEN ExpandNeighbors_push_front(
                  [s EXCEPT !.bfs_queue = <<
                      BfsData(data.root_node,
                              <<data.pos[1] + GRID_OFFSETS_RIM[neighbor + 1][1],
                                data.pos[2] + GRID_OFFSETS_RIM[neighbor + 1][2]>>,
                              data.pos) >> \o @],
                  data, visit_mask, neighbor + 1)
         ELSE ExpandNeighbors_push_front(s, data, visit_mask, neighbor + 1)

RECURSIVE ExpandNeighbors(_, _, _, _)
ExpandNeighbors(s, data, visit_mask, neighbor) ==
    IF neighbor = RimLen THEN s
    ELSE IF Enqueues(s, data, visit_mask, neighbor)
         THEN ExpandNeighbors(
                  [s EXCEPT !.bfs_queue = Append(@,
                      BfsData(data.root_node,
                              <<data.pos[1] + GRID_OFFSETS_RIM[neighbor + 1][1],
                                data.pos[2] + GRID_OFFSETS_RIM[neighbor + 1][2]>>,
                              data.pos))],
                  data, visit_mask, neighbor + 1)
         ELSE ExpandNeighbors(s, data, visit_mask, neighbor + 1)

\* Mutant: a visit that reaches a pixel of its own frontier is discarded instead
\* of being treated as a collision.
EdgesPopStep_ignore_own(s) ==
    LET data == Head(s.bfs_queue)
        popped == [s EXCEPT !.bfs_queue = Tail(@)]
        cell == s.exploration_map[data.pos]
    IN  IF cell.cell_state = "Merged" THEN popped
        ELSE IF cell.cell_state = "Visited"
             THEN IF cell.root_node = Some(data.root_node) THEN popped
                  ELSE merge_and_add_edge(popped, data.prev_pos, data.pos)
        ELSE ExpandNeighbors(
                 [popped EXCEPT !.exploration_map = MarkVisited(@, data)],
                 data, get_visit_mask(s.thinned_occupancy_map, data.pos), 0)

\* Mutant: a visit popped on a Merged pixel is queued again instead of discarded.
EdgesPopStep_requeue_merged(s) ==
    LET data == Head(s.bfs_queue)
        popped == [s EXCEPT !.bfs_queue = Tail(@)]
        cell_state == s.exploration_map[data.pos].cell_state
    IN  IF cell_state = "Merged" THEN [popped EXCEPT !.bfs_queue = Append(@, data)]
        ELSE IF cell_state = "Visited"
             THEN merge_and_add_edge(popped, data.prev_pos, data.pos)
        ELSE ExpandNeighbors(
                 [popped EXCEPT !.exploration_map = MarkVisited(@, data)],
                 data, get_visit_mask(s.thinned_occupancy_map, data.pos), 0)

\* Mutant: a visit popped on a Merged pixel is handled as a collision.
EdgesPopStep_merged_collides(s) ==
    LET data == Head(s.bfs_queue)
        popped == [s EXCEPT !.bfs_queue = Tail(@)]
        cell_state == s.exploration_map[data.pos].cell_state
    IN  IF cell_state \in {"Merged", "Visited"}
        THEN merge_and_add_edge(popped, data.prev_pos, data.pos)
        ELSE ExpandNeighbors(
                 [popped EXCEPT !.exploration_map = MarkVisited(@, data)],
                 data, get_visit_mask(s.thinned_occupancy_map, data.pos), 0)

\* Lines 212-280: one iteration of `while !bfs_queue.is_empty()`.
EdgesPopStep(s) ==
    LET data == Head(s.bfs_queue)
        popped == [s EXCEPT !.bfs_queue = Tail(@)]
        cell_state == s.exploration_map[data.pos].cell_state
    IN  IF cell_state = "Merged" THEN popped
        ELSE IF cell_state = "Visited"
             THEN merge_and_add_edge(popped, data.prev_pos, data.pos)
        ELSE ExpandNeighbors(
                 [popped EXCEPT !.exploration_map = MarkVisited(@, data)],
                 data, get_visit_mask(s.thinned_occupancy_map, data.pos), 0)

\* Lines 280-281 and 65: the queue is empty, the graph is returned.
EdgesReturnStep(s) == [s EXCEPT !.pc = "done"]

\* ------------------------------------------------------------ inputs
\* Every mask of every grid of at most MaxBorderCells cells: its pixels may lie
\* on the border of the grid.
BorderGrids ==
    {d \in (1..MaxBorderCells) \X (1..MaxBorderCells) : d[1] * d[2] <= MaxBorderCells}

Masks(d) == {Array2(d[1], d[2], fg) : fg \in SUBSET ((0..(d[1] - 1)) \X (0..(d[2] - 1)))}

BorderMasks == UNION {Masks(d) : d \in BorderGrids}

\* Every mask of every block of at most MaxCells cells, at least two cells wide
\* and high, with a margin of one background pixel around the block.
BlockGrids ==
    {d \in (2..MaxCells) \X (2..MaxCells) : d[1] * d[2] <= MaxCells}

MarginMasks ==
    {Array2(m.width + 2, m.height + 2, {<<p[1] + 1, p[2] + 1>> : p \in m.cells}) :
     m \in UNION {Masks(d) : d \in BlockGrids}}

ScGrid == (0..(ScDim - 1)) \X (0..(ScDim - 1))

LinePixels(p, d, len) == {<<p[1] + k * d[1], p[2] + k * d[2]>> : k \in 0..(len - 1)}

LineDirections == {<<1, 0>>, <<0, 1>>, <<1, 1>>, <<1, -1>>}

\* Straight lines of 3..MaxLine pixels, in the four directions, at every place.
LineMasks ==
    {Array2(ScDim, ScDim, LinePixels(a[1], a[2], a[3])) :
     a \in {b \in ScGrid \X LineDirections \X (3..MaxLine) :
               LinePixels(b[1], b[2], b[3]) \subseteq ScGrid}}

PlusPixels(c, arm) ==
    {c} \cup UNION {{<<c[1] + k, c[2]>>, <<c[1] - k, c[2]>>,
                     <<c[1], c[2] + k>>, <<c[1], c[2] - k>>} : k \in 1..arm}

\* Plus shapes with four arms of 1..MaxArm pixels, at every place.
PlusMasks ==
    {Array2(ScDim, ScDim, PlusPixels(a[1], a[2])) :
     a \in {b \in ScGrid \X (1..MaxArm) : PlusPixels(b[1], b[2]) \subseteq ScGrid}}

RingPixels(p, w, h) ==
    {q \in (p[1]..(p[1] + w - 1)) \X (p[2]..(p[2] + h - 1)) :
        \/ q[1] \in {p[1], p[1] + w - 1}
        \/ q[2] \in {p[2], p[2] + h - 1}}

\* Rectangular rings with sides of 3..MaxRing pixels, on the border of the grid
\* and one pixel off it.
RingMasks ==
    {Array2(ScDim, ScDim, RingPixels(a[1], a[2], a[3])) :
     a \in {b \in ((0..1) \X (0..1)) \X (3..MaxRing) \X (3..MaxRing) :
               RingPixels(b[1], b[2], b[3]) \subseteq ScGrid}}

\* The rings two pixels off the border, with the corner pixel of the grid added:
\* a second component, of one pixel.
DottedRingMasks ==
    {Array2(ScDim, ScDim, RingPixels(<<2, 2>>, a[1], a[2]) \cup {<<0, 0>>}) :
     a \in {b \in (3..MaxRing) \X (3..MaxRing) :
               RingPixels(<<2, 2>>, b[1], b[2]) \subseteq ScGrid}}

Abs(v) == IF v < 0 THEN -v ELSE v

DiamondPixels(c, r) == {q \in ScGrid : Abs(q[1] - c[1]) + Abs(q[2] - c[2]) = r}

\* Diagonal rings (diamonds) of radius 1..MaxArm, at every place.
DiamondMasks ==
    {Array2(ScDim, ScDim, DiamondPixels(a[1], a[2])) :
     a \in {b \in ScGrid \X (1..MaxArm) :
               Cardinality(DiamondPixels(b[1], b[2])) = 4 * b[2]}}

Inputs == BorderMasks \cup MarginMasks \cup LineMasks \cup PlusMasks
              \cup RingMasks \cup DottedRingMasks \cup DiamondMasks

\* ------------------------------------------------------------ actions
Init == \E m \in Inputs : Starts(ExtractStart(m))

ExtractBegin ==
    /\ pc = "extract"
    /\ Apply(SeedsBeginStep(State))

SeedPick ==
    /\ pc = "seed_outer"
    /\ unvisited_points # {}
    /\ \E p \in unvisited_points : Apply(SeedPickStep(State, p))

SeedPop ==
    /\ pc = "seed_bfs"
    /\ fill_queue # << >>
    /\ Apply(SeedPopStep(State))

SeedRecord ==
    /\ pc = "seed_bfs"
    /\ fill_queue = << >>
    /\ Apply(SeedRecordStep(State))

SeedsReturn ==
    /\ pc = "seed_outer"
    /\ unvisited_points = {}
    /\ Apply(SeedsReturnStep(State))

NodesBegin ==
    /\ pc = "nodes_outer"
    /\ seed_index <= Len(seed_points)
    /\ Apply(NodesBeginStep(State))

NodesPop ==
    /\ pc = "nodes_bfs"
    /\ seed_queue # << >>
    /\ Apply(NodesPopStep(State))

NodesEnd ==
    /\ pc = "nodes_bfs"
    /\ seed_queue = << >>
    /\ Apply(NodesEndStep(State))

EdgesBegin ==
    /\ pc = "nodes_outer"
    /\ seed_index > Len(seed_points)
    /\ Apply(EdgesBeginStep(State))

EdgesPop ==
    /\ pc = "edges"
    /\ bfs_queue # << >>
    /\ Apply(EdgesPopStep(State))

EdgesReturn ==
    /\ pc = "edges"
    /\ bfs_queue = << >>
    /\ Apply(EdgesReturnStep(State))

Next ==
    \/ ExtractBegin
    \/ SeedPick
    \/ SeedPop
    \/ SeedRecord
    \/ SeedsReturn
    \/ NodesBegin
    \/ NodesPop
    \/ NodesEnd
    \/ EdgesBegin
    \/ EdgesPop
    \/ EdgesReturn

Spec == Init /\ [][Next]_vars

\* extract has neither returned nor panicked: exactly then a step is possible,
\* and every step changes the state (it moves pc or pops a queue).
Running == pc \notin {"done", "panic"}

\* extract is a sequential loop nest: whenever a step is possible, one is taken.
\* This is weak fairness of Next, []<>~ENABLED <<Next>>_vars \/ []<><<Next>>_vars,
\* with ENABLED <<Next>>_vars written as the state predicate Running.
LiveSpec == Spec /\ ([]<>(~ Running) \/ []<><<Next>>_vars)

\* ------------------------------------------------------------ vocabulary of the properties
Fg == thinned_occupancy_map.cells

Adjacent8(p, q) == p # q /\ Abs(p[1] - q[1]) <= 1 /\ Abs(p[2] - q[2]) <= 1

\* The 8-connected foreground component of p: the least set closed under Adjacent8.
RECURSIVE Closure(_, _)
Closure(fg, S) ==
    LET T == S \cup {q \in fg : \E p \in S : Adjacent8(p, q)}
    IN  IF T = S THEN S ELSE Closure(fg, T)

Component(p) == Closure(Fg, {p})

Components == {Component(p) : p \in Fg}

\* find_nodes has returned.
NodesFound ==
    \/ pc \in {"edges", "done", "panic"}
    \/ pc = "nodes_outer" /\ seed_index > Len(seed_points)

\* The state of a pixel's exploration record; before find_edges builds the
\* records no pixel has been visited.
CellStateOf(p) ==
    IF p \in DOMAIN exploration_map THEN exploration_map[p].cell_state ELSE "Unvisited"

NodeIds == 0..(Len(nodes) - 1)

NodeIdsOfType(ty) == {i \in NodeIds : nodes[i + 1].node_type = ty}

NodeIdsAt(p) == {i \in NodeIds : nodes[i + 1].position = p}

EdgeIds == 1..Len(edges)

\* The mask is the straight line of len pixels from p in direction d.
IsLine(p, d, len) == Fg = LinePixels(p, d, len)

OnBorder(p) ==
    \/ p[1] \in {0, thinned_occupancy_map.width - 1}
    \/ p[2] \in {0, thinned_occupancy_map.height - 1}

\* ------------------------------------------------------------ C1
\* The visit mask of a pixel has dropped a foreground diagonal neighbour.
DropsDiagonal(p) ==
    \E i \in {1, 3, 5, 7} :
        /\ NeighborSet(thinned_occupancy_map, p, i)
        /\ ~ get_visit_mask(thinned_occupancy_map, p)[i]

\* C1 (Coverage): when find_edges has finished no foreground pixel is left
\* Unvisited, and during the run a record that leaves Unvisited goes to Visited
\* and no record ever returns to Unvisited, so that every foreground pixel makes
\* the Unvisited -> Visited transition exactly once.
C1_Coverage ==
    /\ [](pc = "done" => \A p \in Fg : CellStateOf(p) \in {"Visited", "Merged"})
    /\ [][\A p \in Fg :
            /\ CellStateOf(p) = "Unvisited" /\ CellStateOf(p)' # "Unvisited"
                   => CellStateOf(p)' = "Visited"
            /\ CellStateOf(p) # "Unvisited" => CellStateOf(p)' # "Unvisited"]_vars

\* Tracing is over on a mask where a diagonal neighbour was dropped from a visit
\* mask and where an arc reconstruction has marked pixels Merged.
C1_Witness ==
    /\ pc = "done"
    /\ \E p \in Fg : DropsDiagonal(p)
    /\ \E p \in Fg : CellStateOf(p) = "Merged"
    /\ \A p \in Fg : CellStateOf(p) # "Unvisited"

\* ------------------------------------------------------------ C2
\* The mask is a 5-pixel horizontal line from p that does not touch the border.
IsInnerLine5(p) ==
    /\ IsLine(p, <<1, 0>>, 5)
    /\ \A q \in Fg : ~ OnBorder(q)

InnerLine5Done == pc = "done" /\ \E p \in Pixels(thinned_occupancy_map) : IsInnerLine5(p)

OwnerOf(p) == exploration_map[p].root_node

\* The queued visit is a collision: its pixel is Visited.
IsCollision(data) == CellStateOf(data.pos) = "Visited"

\* The root of the 'this' side and of the 'other' side of a colliding visit.
ThisSideRoot(data) == Unwrap(OwnerOf(data.prev_pos))
OtherSideRoot(data) == Unwrap(OwnerOf(data.pos))

\* C3 (Direction normalization): every emitted edge has from <= to, its first
\* waypoint is a pixel owned by the node `from` and its last waypoint a pixel
\* owned by the node `to`.
C3_DirectionNormalized ==
    \A k \in EdgeIds :
        /\ edges[k].from <= edges[k].to
        /\ Len(edges[k].waypoints) >= 1
        /\ OwnerOf(edges[k].waypoints[1]) = Some(edges[k].from)
        /\ OwnerOf(edges[k].waypoints[Len(edges[k].waypoints)]) = Some(edges[k].to)

\* Both sides collide in one run: two edges between distinct nodes have been
\* emitted, and the queue still holds a collision of a higher-id frontier with a
\* lower-id one and a collision of a lower-id frontier with a higher-id one.
C3_Witness ==
    /\ pc = "edges"
    /\ \E j, k \in EdgeIds : j # k /\ edges[j].from < edges[j].to /\ edges[k].from < edges[k].to
    /\ \E i \in 1..Len(bfs_queue) :
          IsCollision(bfs_queue[i]) /\ ThisSideRoot(bfs_queue[i]) > OtherSideRoot(bfs_queue[i])
    /\ \E i \in 1..Len(bfs_queue) :
          IsCollision(bfs_queue[i]) /\ ThisSideRoot(bfs_queue[i]) < OtherSideRoot(bfs_queue[i])

\* ------------------------------------------------------------ C4
MaxSide ==
    IF thinned_occupancy_map.width > thinned_occupancy_map.height
    THEN thinned_occupancy_map.width ELSE thinned_occupancy_map.height

\* C4 (Score symmetry): for every straight line of at least 3 pixels, at any
\* position in the grid, the score is 2 at every interior pixel and <= 1 at the
\* two end pixels; find_nodes creates no node at an interior pixel and exactly
\* two Endpoint nodes, one at each end.
C4_ScoreSymmetry ==
    NodesFound =>
    \A p \in Pixels(thinned_occupancy_map), d \in LineDirections, len \in 3..MaxSide :
        IsLine(p, d, len) =>
            LET pixel(k) == <<p[1] + k * d[1], p[2] + k * d[2]>>
                score(k) == compute_pixel_score(thinned_occupancy_map,
                                                pixel(k)[1], pixel(k)[2])
            IN  /\ \A k \in 1..(len - 2) : score(k) = 2
                /\ score(0) <= 1 /\ score(len - 1) <= 1
                /\ \A k \in 1..(len - 2) : NodeIdsAt(pixel(k)) = {}
                /\ Cardinality(NodeIdsOfType("Endpoint")) = 2
                /\ Cardinality(NodeIdsAt(pixel(0))) = 1
                /\ Cardinality(NodeIdsAt(pixel(len - 1))) = 1

\* ------------------------------------------------------------ C5
\* The pixels of component K at the greatest 8-neighbour step distance from
\* seed: the last layer of a breadth-first search of K from seed.
RECURSIVE LastLayer(_, _, _)
LastLayer(K, seen, layer) ==
    LET next == {q \in K \ seen : \E p \in layer : Adjacent8(p, q)}
    IN  IF next = {} THEN layer ELSE LastLayer(K, seen \cup next, next)

NodeIdsIn(K) == {i \in NodeIds : nodes[i + 1].position \in K}

\* find_nodes has just returned: the queue holds the frontier origins, all of them.
NodesJustFound == pc = "nodes_outer" /\ seed_index > Len(seed_points)

OriginsIn(K) == {i \in 1..Len(bfs_queue) : bfs_queue[i].pos \in K}

\* C5 (Waypoint rule): after find_nodes every component has at least one node
\* and one frontier origin; it has a Waypoint node if and only if it has no
\* Endpoint and no Intersection node, and then exactly one, at a pixel of the last
\* layer of the BFS from the component's seed; no component has two Waypoints.
C5_WaypointRule ==
    NodesJustFound =>
        \A K \in Components :
            LET waypoints == NodeIdsIn(K) \cap NodeIdsOfType("Waypoint")
                classified == NodeIdsIn(K) \ waypoints
            IN  /\ NodeIdsIn(K) # {}
                /\ OriginsIn(K) # {}
                /\ \A i \in NodeIdsIn(K) :
                       \E j \in OriginsIn(K) :
                           bfs_queue[j] = BfsData(i, nodes[i + 1].position,
                                                  nodes[i + 1].position)
                /\ Cardinality(waypoints) <= 1
                /\ waypoints # {} <=> classified = {}
                /\ \A i \in waypoints :
                       \E j \in 1..Len(seed_points) :
                           /\ seed_points[j] \in K
                           /\ nodes[i + 1].position \in
                                  LastLayer(K, {seed_points[j]}, {seed_points[j]})

\* find_nodes has returned on a mask with a component that got a Waypoint node
\* away from its seed and a component that got classified nodes.
C5_Witness ==
    /\ NodesJustFound
    /\ \E i \in NodeIdsOfType("Waypoint") : nodes[i + 1].position \notin Range(seed_points)
    /\ \E K \in Components : NodeIdsIn(K) \cap NodeIdsOfType("Waypoint") = {}

\* ------------------------------------------------------------ C6
\* The edges with an end at a node of component K.
EdgeIdsIn(K) ==
    {k \in EdgeIds : edges[k].from \in NodeIdsIn(K) \/ edges[k].to \in NodeIdsIn(K)}

\* K is a closed loop without a classified pixel: every pixel scores 2.
IsUnclassifiedLoop(K) ==
    \A p \in K : compute_pixel_score(thinned_occupancy_map, p[1], p[2]) = 2

\* C6 (Closed loop): a component that is a closed loop with no classified pixel
\* has, when the extraction is over, exactly one node, a Waypoint, and exactly
\* one edge, a self-loop on that node, emitted when the two directions of its
\* single frontier met.
C6_ClosedLoop ==
    pc = "done" =>
        \A K \in Components :
            IsUnclassifiedLoop(K) =>
                /\ Cardinality(NodeIdsIn(K)) = 1
                /\ NodeIdsIn(K) \subseteq NodeIdsOfType("Waypoint")
                /\ Cardinality(EdgeIdsIn(K)) = 1
                /\ \A k \in EdgeIdsIn(K) :
                       /\ edges[k].from = edges[k].to
                       /\ edges[k].from \in NodeIdsIn(K)
                       /\ Range(edges[k].waypoints) = K

\* The extraction of a mask with a square ring is over and its edge is emitted.
C6_Witness ==
    /\ pc = "done"
    /\ \E K \in Components :
          /\ IsUnclassifiedLoop(K)
          /\ \E p \in Pixels(thinned_occupancy_map), w \in 3..MaxSide, h \in 3..MaxSide :
                 K = RingPixels(p, w, h)
          /\ EdgeIdsIn(K) # {}

\* ------------------------------------------------------------ C7
\* The mask is the plus shape with centre c and four arms of `arm` pixels.
IsPlus(c, arm) == Fg = PlusPixels(c, arm)

PlusTips(c, arm) ==
    {<<c[1] + arm, c[2]>>, <<c[1] - arm, c[2]>>, <<c[1], c[2] + arm>>, <<c[1], c[2] - arm>>}

\* The ends of edge k, as a set of node ids.
EdgeEnds(k) == {edges[k].from, edges[k].to}

\* C7 (Plus shape): for a plus shape the extraction yields exactly 1 Intersection
\* node, at the centre, exactly 4 Endpoint nodes, at the arm tips, and exactly 4
\* edges, each joining the Intersection node to a different Endpoint node.
C7_PlusShape ==
    pc = "done" =>
    \A c \in Pixels(thinned_occupancy_map), arm \in 1..MaxSide :
        IsPlus(c, arm) =>
            /\ Len(nodes) = 5
            /\ Cardinality(NodeIdsOfType("Intersection")) = 1
            /\ NodeIdsOfType("Intersection") = NodeIdsAt(c)
            /\ Cardinality(NodeIdsOfType("Endpoint")) = 4
            /\ {nodes[i + 1].position : i \in NodeIdsOfType("Endpoint")} = PlusTips(c, arm)
            /\ Len(edges) = 4
            /\ \A k \in EdgeIds :
                   /\ EdgeEnds(k) \cap NodeIdsOfType("Intersection") # {}
                   /\ EdgeEnds(k) \cap NodeIdsOfType("Endpoint") # {}
            /\ \A j, k \in EdgeIds : j # k => EdgeEnds(j) # EdgeEnds(k)

\* The extraction of a plus shape with arms of at least 2 pixels is over and has
\* emitted edges.
C7_Witness ==
    /\ pc = "done"
    /\ \E c \in Pixels(thinned_occupancy_map), arm \in 2..MaxSide : IsPlus(c, arm)
    /\ Len(edges) = 4

\* ------------------------------------------------------------ C8
\* find_seed_points has just returned its seeds.
SeedsJustFound == pc = "nodes_outer" /\ seed_index = 1

SeedComponents == {Component(seed_points[i]) : i \in 1..Len(seed_points)}

\* C8 (Component Seeder): between two fills the remaining set is the foreground
\* without the components of the recorded seeds; a finished fill has removed
\* every pixel of its seed's component, and counted each once; when
\* find_seed_points has returned, the remaining set is empty and the seeds are
\* foreground pixels, one in each 8-connected component.
C8_OneSeedPerComponent ==
    /\ pc = "seed_outer" =>
           /\ unvisited_points = Fg \ UNION SeedComponents
           /\ Cardinality(SeedComponents) = Len(seed_points)
    /\ pc = "seed_bfs" /\ fill_queue = << >> =>
           /\ connected_points = Cardinality(Component(seed_point))
           /\ unvisited_points = Fg \ UNION (SeedComponents \cup {Component(seed_point)})
    /\ SeedsJustFound =>
           /\ unvisited_points = {}
           /\ Range(seed_points) \subseteq Fg
           /\ Len(seed_points) = Cardinality(Components)
           /\ SeedComponents = Components

\* find_seed_points has returned at least two seeds on a mask with a component
\* that holds a diagonal step.
C8_Witness ==
    /\ SeedsJustFound
    /\ Len(seed_points) >= 2
    /\ \E p, q \in Fg :
          /\ Adjacent8(p, q) /\ p[1] # q[1] /\ p[2] # q[2]
          /\ <<p[1], q[2]>> \notin Fg /\ <<q[1], p[2]>> \notin Fg

\* ------------------------------------------------------------ C9
\* The first pixel of S in the order in which lines 73-79 insert the pixels.
FirstInserted(S) ==
    CHOOSE p \in S : \A q \in S : p[1] < q[1] \/ (p[1] = q[1] /\ p[2] <= q[2])

\* One step of extract from s in the run in which the iteration over
\* unvisited_points yields the pixels in insertion order.
OrderedStep(s) ==
    CASE s.pc = "extract" -> SeedsBeginStep(s)
      [] s.pc = "seed_outer" ->
            IF s.unvisited_points = {} THEN SeedsReturnStep(s)
            ELSE SeedPickStep(s, FirstInserted(s.unvisited_points))
      [] s.pc = "seed_bfs" ->
            IF s.fill_queue = << >> THEN SeedRecordStep(s) ELSE SeedPopStep(s)
      [] s.pc = "nodes_outer" ->
            IF s.seed_index <= Len(s.seed_points) THEN NodesBeginStep(s)
            ELSE EdgesBeginStep(s)
      [] s.pc = "nodes_bfs" ->
            IF s.seed_queue = << >> THEN NodesEndStep(s) ELSE NodesPopStep(s)
      [] s.pc = "edges" ->
            IF s.bfs_queue = << >> THEN EdgesReturnStep(s) ELSE EdgesPopStep(s)

RECURSIVE OrderedRun(_)
OrderedRun(s) == IF s.pc \in {"done", "panic"} THEN s ELSE OrderedRun(OrderedStep(s))

\* C9 (Determinism): the graph of a finished extraction is the graph of any other
\* run on the same mask, here the run that picks its seeds in insertion order:
\* the same nodes (ids, types, positions) and the same edges (ends, polylines).
C9_Determinism ==
    pc = "done" =>
        LET other == OrderedRun(ExtractStart(thinned_occupancy_map))
        IN  nodes = other.nodes /\ edges = other.edges

\* ------------------------------------------------------------ C10
\* C10 (Edge endpoints exist): the extraction never aborts; whenever the next
\* queued visit is a collision, the 'this side' pixel and the 'other side' pixel
\* both have an owner, and the owners are ids of nodes of the graph; both ends
\* of every emitted edge are ids of nodes of the graph.
C10_EdgeEndpointsExist ==
    /\ pc # "panic" /\ failure = "none"
    /\ pc = "edges" /\ bfs_queue # << >> /\ IsCollision(Head(bfs_queue)) =>
           /\ OwnerOf(Head(bfs_queue).prev_pos) # None
           /\ OwnerOf(Head(bfs_queue).pos) # None
           /\ ThisSideRoot(Head(bfs_queue)) \in NodeIds
           /\ OtherSideRoot(Head(bfs_queue)) \in NodeIds
    /\ \A k \in EdgeIds : edges[k].from \in NodeIds /\ edges[k].to \in NodeIds

\* A collision has emitted its edge and the next queued visit is a collision too.
C10_Witness ==
    /\ pc = "edges"
    /\ edges # << >>
    /\ bfs_queue # << >>
    /\ IsCollision(Head(bfs_queue))

\* ------------------------------------------------------------ C11
\* The coordinates that compute_pixel_score passes to thinned_occupancy_map.get
\* (lines 317-339), before the cast to usize: every rim neighbour of (x, y).
ScoreReads(x, y) ==
    {<<x + GRID_OFFSETS_RIM[i + 1][1], y + GRID_OFFSETS_RIM[i + 1][2]>> :
        i \in 0..(RimLen - 1)}

\* The coordinates read behind get_neighboring_pos (lines 94-97, 165-168,
\* 288-291, 300-303): the neighbours of pos for which it returns Some.
GuardedReads(m, pos) ==
    {Unwrap(get_neighboring_pos(pos, <<m.width, m.height>>, i)) :
        i \in {j \in 0..(RimLen - 1) :
                  get_neighboring_pos(pos, <<m.width, m.height>>, j) # None}}

\* The coordinates at which the next step reads thinned_occupancy_map.
MaskReads ==
    CASE pc = "extract" -> Pixels(thinned_occupancy_map)
      [] pc = "seed_bfs" /\ fill_queue # << >> ->
            GuardedReads(thinned_occupancy_map, Head(fill_queue))
      [] pc = "nodes_bfs" /\ seed_queue # << >> ->
            ScoreReads(Head(seed_queue)[1], Head(seed_queue)[2])
                \cup GuardedReads(thinned_occupancy_map, Head(seed_queue))
      [] pc = "edges" /\ bfs_queue # << >> /\ CellStateOf(Head(bfs_queue).pos) = "Unvisited" ->
            GuardedReads(thinned_occupancy_map, Head(bfs_queue).pos)
      [] OTHER -> {}

\* The coordinates at which the next step reads exploration_map: the pixel of
\* the popped visit and, for a collision, the two starts of the backward walks
\* (lines 359, 384); for an expansion, the neighbours that pass the visit mask
\* and the explicit bounds test of lines 255-257.
GridReads ==
    IF pc = "edges" /\ bfs_queue # << >>
    THEN LET data == Head(bfs_queue)
             m == thinned_occupancy_map
         IN  {data.pos}
             \cup (IF CellStateOf(data.pos) = "Visited" THEN {data.prev_pos} ELSE {})
             \cup (IF CellStateOf(data.pos) = "Unvisited"
                   THEN {q \in ScoreReads(data.pos[1], data.pos[2]) :
                            ~ (q[1] < 0 \/ q[1] >= m.width \/ q[2] < 0 \/ q[2] >= m.height)}
                   ELSE {})
    ELSE {}

\* C11 (Out of bounds is an absent neighbour): get_neighboring_pos returns None
\* exactly when the neighbour lies outside the grid and the neighbour otherwise,
\* and no step of any stage reads the mask or the exploration grid at a
\* coordinate outside the grid.
C11_NoReadOutsideGrid ==
    /\ \A p \in Pixels(thinned_occupancy_map), i \in 0..(RimLen - 1) :
          LET q == <<p[1] + GRID_OFFSETS_RIM[i + 1][1], p[2] + GRID_OFFSETS_RIM[i + 1][2]>>
              n == get_neighboring_pos(p, <<thinned_occupancy_map.width,
                                            thinned_occupancy_map.height>>, i)
          IN  n = IF q \in Pixels(thinned_occupancy_map) THEN Some(q) ELSE None
    /\ MaskReads \subseteq Pixels(thinned_occupancy_map)
    /\ GridReads \subseteq Pixels(thinned_occupancy_map)

\* ------------------------------------------------------------ C12
\* C12 (Idempotent direction normalization): for every pair of node ids as the
\* two roots and every emitted polyline as the collected pixels, normalizing the
\* normalized result once more (its ids in the emitted order, its polyline)
\* changes neither the ids nor the polyline.
C12_NormalizationIdempotent ==
    \A this_side_root \in NodeIds, other_side_root \in NodeIds, k \in EdgeIds :
        LET once == NormalizeDirection(this_side_root, other_side_root,
                                       edges[k].waypoints)
            twice == NormalizeDirection(once.lower_group, once.upper_group,
                                        once.waypoints)
        IN  /\ twice.lower_group = once.lower_group
            /\ twice.upper_group = once.upper_group
            /\ twice.waypoints = once.waypoints

\* ------------------------------------------------------------ C13
\* The rim neighbour i of p is a foreground pixel of the grid; a neighbour
\* outside the grid is no neighbour.
IsNeighbor(p, i) ==
    <<p[1] + GRID_OFFSETS_RIM[i + 1][1], p[2] + GRID_OFFSETS_RIM[i + 1][2]>> \in Fg

neighbor_count(p) == Cardinality({i \in 0..(RimLen - 1) : IsNeighbor(p, i)})

arc_count(p) ==
    Cardinality({i \in 0..(RimLen - 1) :
                    IsNeighbor(p, i) /\ IsNeighbor(p, (i + 1) % RimLen)})

\* C13 (Connectivity score): for every pixel the classifier is about to score,
\* on the border of the grid or off it, compute_pixel_score returns
\* neighbor_count - arc_count.
C13_ConnectivityScore ==
    pc = "nodes_bfs" /\ seed_queue # << >> =>
        LET p == Head(seed_queue)
        IN  compute_pixel_score(thinned_occupancy_map, p[1], p[2])
                = neighbor_count(p) - arc_count(p)

\* ------------------------------------------------------------ C14
\* The score the classifier computes for pixel p.
ScoreOf(p) == compute_pixel_score(thinned_occupancy_map, p[1], p[2])

\* The queued frontier origins of node i.
OriginsOf(i) == {j \in 1..Len(bfs_queue) : bfs_queue[j].root_node = i}

\* C14 (Classification is exact): when find_nodes has returned, every foreground
\* pixel of computed score <= 1 carries exactly one node, an Endpoint, every
\* foreground pixel of computed score >= 3 exactly one node, an Intersection,
\* and a pixel of score 2 at most one node, never an Endpoint or an
\* Intersection; every node lies on a foreground pixel, and has exactly one
\* frontier origin in the queue, at its pixel and with that pixel as predecessor.
C14_ClassificationExact ==
    NodesJustFound =>
        /\ \A p \in Fg :
              /\ ScoreOf(p) <= 1 =>
                     /\ Cardinality(NodeIdsAt(p)) = 1
                     /\ NodeIdsAt(p) \subseteq NodeIdsOfType("Endpoint")
              /\ ScoreOf(p) >= 3 =>
                     /\ Cardinality(NodeIdsAt(p)) = 1
                     /\ NodeIdsAt(p) \subseteq NodeIdsOfType("Intersection")
              /\ ScoreOf(p) = 2 =>
                     /\ Cardinality(NodeIdsAt(p)) <= 1
                     /\ NodeIdsAt(p) \subseteq NodeIdsOfType("Waypoint")
        /\ \A i \in NodeIds :
              /\ nodes[i + 1].position \in Fg
              /\ Cardinality(OriginsOf(i)) = 1
              /\ \A j \in OriginsOf(i) :
                     bfs_queue[j] = BfsData(i, nodes[i + 1].position, nodes[i + 1].position)
        /\ Len(bfs_queue) = Len(nodes)

\* find_nodes has returned on a mask with a pixel of score 1, a pixel of score 2
\* and a pixel of score >= 3, and has created an Endpoint and an Intersection.
C14_Witness ==
    /\ NodesJustFound
    /\ \E p \in Fg : ScoreOf(p) = 1
    /\ \E p \in Fg : ScoreOf(p) = 2
    /\ \E p \in Fg : ScoreOf(p) >= 3
    /\ NodeIdsOfType("Endpoint") # {}
    /\ NodeIdsOfType("Intersection") # {}

\* ------------------------------------------------------------ C15
\* The places <<edge, index>> of the emitted polylines that hold pixel p.
PlacesOf(p) ==
    {a \in UNION {{<<k, i>> : i \in 1..Len(edges[k].waypoints)} : k \in EdgeIds} :
        edges[a[1]].waypoints[a[2]] = p}

\* C15 (One arc per pixel): when tracing is over, every foreground pixel has an
\* owning node, and every foreground pixel that is not the pixel of a node holds
\* at most one place in the polylines of the emitted edges.
C15_OneArcPerPixel ==
    pc = "done" =>
        /\ \A p \in Fg : OwnerOf(p) # None /\ Unwrap(OwnerOf(p)) \in NodeIds
        /\ \A p \in Fg : NodeIdsAt(p) = {} => Cardinality(PlacesOf(p)) <= 1

\* ------------------------------------------------------------ C16
\* The pixels one forward step from p: the neighbours that p's visit mask keeps.
ForwardSteps(p) ==
    {<<p[1] + GRID_OFFSETS_RIM[i + 1][1], p[2] + GRID_OFFSETS_RIM[i + 1][2]>> :
        i \in {j \in 0..(RimLen - 1) : get_visit_mask(thinned_occupancy_map, p)[j]}}

\* The least number of forward steps from a pixel of `layer` to p, where `layer`
\* is d steps from the sources and `seen` holds the pixels of the layers so
\* far; -1 when p cannot be reached.
RECURSIVE StepDistance(_, _, _, _)
StepDistance(layer, seen, p, d) ==
    IF p \in layer THEN d
    ELSE LET next == UNION {ForwardSteps(q) : q \in layer} \ seen
         IN  IF next = {} THEN -1 ELSE StepDistance(next, seen \cup next, p, d + 1)

\* The step distance of p from node i, and from the nearest node.
NodeDistance(i, p) == StepDistance({nodes[i + 1].position}, {nodes[i + 1].position}, p, 0)

NearestDistance(p) ==
    LET origins == {nodes[i + 1].position : i \in NodeIds}
    IN  StepDistance(origins, origins, p, 0)

\* The predecessor chain of p: its length, and the pixel it ends at; the length
\* is -1 when the chain does not end within `fuel` links.
RECURSIVE ChainLength(_, _)
ChainLength(p, fuel) ==
    IF exploration_map[p].prev_pos = p THEN 0
    ELSE IF fuel = 0 THEN -1
    ELSE LET rest == ChainLength(exploration_map[p].prev_pos, fuel - 1)
         IN  IF rest = -1 THEN -1 ELSE rest + 1

RECURSIVE ChainEnd(_, _)
ChainEnd(p, fuel) ==
    IF exploration_map[p].prev_pos = p \/ fuel = 0 THEN p
    ELSE ChainEnd(exploration_map[p].prev_pos, fuel - 1)

\* C16 (Simultaneous expansion): when tracing is over, every foreground pixel is
\* owned by a node whose step distance to it is the least among all nodes, and
\* its predecessor chain ends at that node's pixel after exactly that many links.
C16_NearestNodeOwns ==
    pc = "done" =>
        \A p \in Fg :
            LET size == Cardinality(Fg)
                owner == Unwrap(OwnerOf(p))
            IN  /\ OwnerOf(p) # None
                /\ owner \in NodeIds
                /\ NodeDistance(owner, p) = NearestDistance(p)
                /\ ChainLength(p, size) = NearestDistance(p)
                /\ ChainEnd(p, size) = nodes[owner + 1].position

\* Tracing is over on a mask where a pixel at least 2 steps from its owner is
\* within reach of another node that is farther away.
C16_Witness ==
    /\ pc = "done"
    /\ \E p \in Fg, i \in NodeIds :
          /\ OwnerOf(p) # None
          /\ NodeDistance(Unwrap(OwnerOf(p)), p) >= 2
          /\ NodeDistance(i, p) > NodeDistance(Unwrap(OwnerOf(p)), p)

\* ------------------------------------------------------------ C17
\* C17 (Termination): once find_edges runs, its queue eventually is empty and the
\* extraction is over; a step of find_edges that does not shorten the queue is
\* the Unvisited -> Visited transition of the popped pixel and queues at most 8
\* visits; and no backward walk of the arc reconstruction runs on for ever.
C17_Termination ==
    /\ (pc = "edges") ~> (pc = "done" /\ bfs_queue = << >>)
    /\ [][pc = "edges" /\ pc' = "edges" /\ Len(bfs_queue') >= Len(bfs_queue) =>
             /\ \E p \in {Head(bfs_queue).pos} :
                    CellStateOf(p) = "Unvisited" /\ CellStateOf(p)' = "Visited"
             /\ Len(bfs_queue') <= Len(bfs_queue) - 1 + RimLen]_vars
    /\ [](failure # "walk never stops")

\* find_edges has finished after at least two arc reconstructions, one of which
\* walked back over at least two predecessor links, and with every foreground
\* pixel visited.
C17_Witness ==
    /\ pc = "done"
    /\ bfs_queue = << >>
    /\ Len(edges) >= 2
    /\ \E k \in EdgeIds : Len(edges[k].waypoints) >= 4
    /\ \A p \in Fg : CellStateOf(p) # "Unvisited"

\* ------------------------------------------------------------ C18
\* C18 (Monotone pixel state): in every step of find_edges each exploration
\* record stays as it is or moves Unvisited -> Visited or Visited -> Merged; its
\* owner and its predecessor change only in its Unvisited -> Visited step, which
\* gives it an owner; and a step that pops a visit of a Merged pixel changes no
\* record and emits no edge.
C18_MonotoneState ==
    [][pc = "edges" =>
          /\ \A p \in Pixels(thinned_occupancy_map) :
                /\ exploration_map[p].cell_state = "Unvisited" =>
                       exploration_map'[p].cell_state \in {"Unvisited", "Visited"}
                /\ exploration_map[p].cell_state = "Visited" =>
                       exploration_map'[p].cell_state \in {"Visited", "Merged"}
                /\ exploration_map[p].cell_state = "Merged" =>
                       exploration_map'[p].cell_state = "Merged"
                /\ \/ exploration_map'[p].root_node # exploration_map[p].root_node
                   \/ exploration_map'[p].prev_pos # exploration_map[p].prev_pos
                   => /\ exploration_map[p].cell_state = "Unvisited"
                      /\ exploration_map'[p].cell_state = "Visited"
                /\ /\ exploration_map[p].cell_state = "Unvisited"
                   /\ exploration_map'[p].cell_state = "Visited"
                   => exploration_map'[p].root_node # None
          /\ bfs_queue # << >> /\ CellStateOf(Head(bfs_queue).pos) = "Merged" =>
                exploration_map' = exploration_map /\ edges' = edges]_vars

\* The next visit to be popped is a visit of a Merged pixel, and another visit
\* waits behind it.
C18_Witness ==
    /\ pc = "edges"
    /\ Len(bfs_queue) >= 2
    /\ CellStateOf(Head(bfs_queue).pos) = "Merged"

\* ------------------------------------------------------------ C19
\* The queued visit is a frontier origin: its predecessor is its own pixel.
IsOrigin(data) == data.prev_pos = data.pos

\* The pixels of the nodes: the frontier origins that find_nodes has queued.
OriginPixels == {nodes[i + 1].position : i \in NodeIds}

\* C19 (Origin pixels stay intact): during find_edges a frontier origin is popped
\* while its pixel is Unvisited; the pixel of a node is never Merged, and once
\* visited it is owned by its node and is its own predecessor; a visit that is
\* no frontier origin and is popped on the pixel of a node emits an edge.
C19_OriginsIntact ==
    /\ [](pc \in {"edges", "done"} =>
            /\ \A i \in NodeIds :
                  LET origin == nodes[i + 1].position
                  IN  /\ CellStateOf(origin) # "Merged"
                      /\ CellStateOf(origin) = "Visited" =>
                             /\ OwnerOf(origin) = Some(i)
                             /\ exploration_map[origin].prev_pos = origin
                      /\ CellStateOf(origin) = "Unvisited" =>
                             /\ pc = "edges"
                             /\ \E j \in 1..Len(bfs_queue) :
                                    bfs_queue[j] = BfsData(i, origin, origin)
            /\ pc = "edges" /\ bfs_queue # << >> /\ IsOrigin(Head(bfs_queue)) =>
                  CellStateOf(Head(bfs_queue).pos) = "Unvisited")
    /\ [][/\ pc = "edges"
          /\ bfs_queue # << >>
          /\ ~ IsOrigin(Head(bfs_queue))
          /\ Head(bfs_queue).pos \in OriginPixels
          => /\ Len(edges') = Len(edges) + 1
             /\ pc' = "edges"]_vars

\* A visit that is no frontier origin is about to be popped on the pixel of a
\* node, after an arc reconstruction that ended at that same pixel.
C19_Witness ==
    /\ pc = "edges"
    /\ bfs_queue # << >>
    /\ ~ IsOrigin(Head(bfs_queue))
    /\ Head(bfs_queue).pos \in OriginPixels
    /\ \E k \in EdgeIds :
          Head(bfs_queue).pos \in {edges[k].waypoints[1],
                                   edges[k].waypoints[Len(edges[k].waypoints)]}

\* ------------------------------------------------------------ C20
\* C20 (Polylines are connected pixel paths): every point of the waypoint list
\* of every emitted edge is a foreground pixel, and every two consecutive points
\* are distinct pixels that are 8-neighbours of each other.
C20_ConnectedPolylines ==
    \A k \in EdgeIds :
        /\ \A i \in 1..Len(edges[k].waypoints) : edges[k].waypoints[i] \in Fg
        /\ \A i \in 1..(Len(edges[k].waypoints) - 1) :
               Adjacent8(edges[k].waypoints[i], edges[k].waypoints[i + 1])

\* An edge has been emitted whose two walks both left their node pixel: the
\* polyline holds at least two pixels of each side, and a diagonal step.
C20_Witness ==
    \E k \in EdgeIds :
        LET w == edges[k].waypoints
        IN  /\ Len(w) >= 4
            /\ OwnerOf(w[2]) = Some(edges[k].from)
            /\ OwnerOf(w[Len(w) - 1]) = Some(edges[k].to)
            /\ edges[k].from # edges[k].to
            /\ \E i \in 1..(Len(w) - 1) : w[i][1] # w[i + 1][1] /\ w[i][2] # w[i + 1][2]

====
